---- MODULE Spec2Model ----
(***************************************************************************)
(* RSS-webhook: the incremental-delivery engine of src/main.rs.            *)
(*                                                                         *)
(* The process loops for ever: it loads the watermark store from           *)
(* state.json, processes every feed of FEEDS in order (fetch, parse,       *)
(* select the items to send, dispatch them to the webhook in chunks of     *)
(* ten), writes the store back when some feed reported an update, and      *)
(* sleeps.  The model follows main() and fetch_and_process_feed() step by  *)
(* step; the collaborators (HTTP fetch, RSS parse, webhook POST, the file  *)
(* system) answer nondeterministically.                                    *)
(***************************************************************************)
EXTENDS Integers, Sequences, FiniteSets, TLC

(***************************************************************************)
(* Bounds of the model.                                                    *)
(***************************************************************************)
\* Small feed documents carry items published at the instants 1..MaxInstant.
MaxInstant == 2
\* Small feed documents have at most MaxLen items.
MaxLen == 3
\* The long feed document has BigLen datable items.
BigLen == 21
\* Cleaned descriptions are within MaxPad characters of the truncation limit.
MaxPad == 3

(***************************************************************************)
(* Program constants.                                                      *)
(***************************************************************************)
\* items_to_send.chunks(10)
ChunkSize == 10
\* final_desc.len() > 200, &final_desc[0..200]
DescLimit == 200
\* items_with_dates.into_iter().take(3)
FirstRunCap == 3

\* The compiled-in feed table (the urls are the keys of the store).
FEEDS == << "https://archlinux.org/feeds/packages/x86_64/core/",
            "https://archlinux.org/feeds/news/" >>

Urls == {FEEDS[i] : i \in 1..Len(FEEDS)}

(***************************************************************************)
(* Timestamps.  A publish date string of a feed item is absent, garbage,   *)
(* or an RFC 2822 date: a local time and an offset.  A DateTime<FixedOffset>*)
(* is an instant (utc) that remembers its offset; chrono compares two of   *)
(* them by the instant alone.                                              *)
(***************************************************************************)
NoPubDate == [kind |-> "none", local |-> 0, off |-> 0]
BadPubDate == [kind |-> "garbage", local |-> 0, off |-> 0]
Rfc2822(instant, off) == [kind |-> "rfc2822", local |-> instant + off, off |-> off]

\* DateTime::parse_from_rfc2822: Ok(date) or Err.
parse_from_rfc2822(s) ==
    IF s.kind = "rfc2822"
    THEN [ok |-> TRUE, date |-> [utc |-> s.local - s.off, off |-> s.off]]
    ELSE [ok |-> FALSE, date |-> [utc |-> 0, off |-> 0]]


\* Stands for "no date" where the model needs a value of the type.
NoDate == [utc |-> 0, off |-> 0]

\* Ord for DateTime<FixedOffset>: the instants are compared, the offsets ignored.
DateGt(a, b) == a.utc > b.utc
DateLeq(a, b) == a.utc <= b.utc

(***************************************************************************)
(* Feed documents: what the parse collaborator may return for a feed.      *)
(***************************************************************************)
Item(g, p) == [guid |-> g, pub_date |-> p]

\* The news feed serves few items: it is the "other feed" of a cycle.
NewsItems == {Item(100, Rfc2822(1, 0))}

\* The core feed: one item per instant, one more at the last instant that
\* states it with another offset (a tie), one without a date and one with a
\* date that does not parse.
CoreSmallItems ==
    {Item(t, Rfc2822(t, 0)) : t \in 1..MaxInstant}
        \cup {Item(50, Rfc2822(MaxInstant, 1))}
        \cup {Item(91, NoPubDate), Item(92, BadPubDate)}

Injective(s) == \A i, j \in DOMAIN s : s[i] = s[j] => i = j

SeqsUpTo(S, n) == UNION {[1..k -> S] : k \in 0..n}

\* The long document: BigLen items, newest first (as feeds list them) or
\* oldest first, all later than the small documents' items.
BigItem(i) == Item(1000 + i, Rfc2822(MaxInstant + i, 0))
BigDocs == { [i \in 1..BigLen |-> BigItem(BigLen + 1 - i)],
             [i \in 1..BigLen |-> BigItem(i)] }

CoreDocs == {s \in SeqsUpTo(CoreSmallItems, MaxLen) : Injective(s)} \cup BigDocs
NewsDocs == {s \in SeqsUpTo(NewsItems, 1) : Injective(s)}

(***************************************************************************)
(* Sequence helpers.                                                       *)
(***************************************************************************)
Range(s) == {s[i] : i \in DOMAIN s}

Min(a, b) == IF a < b THEN a ELSE b

Reverse(s) == [i \in 1..Len(s) |-> s[Len(s) + 1 - i]]

Take(s, n) == SubSeq(s, 1, Min(n, Len(s)))

\* A stable sort, as slice::sort_by and slice::sort_by_key are: x goes in front
\* of the first element that it strictly precedes, so that elements that
\* compare equal keep the order they had.
RECURSIVE InsertSorted(_, _, _)
InsertSorted(x, s, descending) ==
    IF s = << >> THEN << x >>
    ELSE IF (IF descending THEN DateGt(x.date, Head(s).date)
                           ELSE DateGt(Head(s).date, x.date))
         THEN << x >> \o s
         ELSE << Head(s) >> \o InsertSorted(x, Tail(s), descending)

RECURSIVE StableSort(_, _)
StableSort(s, descending) ==
    IF s = << >> THEN << >>
    ELSE InsertSorted(s[Len(s)], StableSort(SubSeq(s, 1, Len(s) - 1), descending),
                      descending)

\* As slice.chunks_exact(n) counts: a shorter last chunk is dropped.
NumChunks_Exact(s, n) == Len(s) \div n

\* slice.chunks(n): consecutive chunks of n elements, the last one maybe shorter.
NumChunks(s, n) == (Len(s) + n - 1) \div n
Chunk(s, n, k) == SubSeq(s, (k - 1) * n + 1, Min(k * n, Len(s)))

(***************************************************************************)
(* The delivery-set selector of fetch_and_process_feed.                    *)
(***************************************************************************)
\* Every item kept, one without a usable date under a default date.
RECURSIVE ItemsWithDates_KeepAll(_)
ItemsWithDates_KeepAll(items) ==
    IF items = << >> THEN << >>
    ELSE << [item |-> Head(items),
             date |-> parse_from_rfc2822(Head(items).pub_date).date] >>
         \o ItemsWithDates_KeepAll(Tail(items))

\* The items whose pub_date is present and parses, each with its date, in
\* feed order.
RECURSIVE ItemsWithDates(_)
ItemsWithDates(items) ==
    IF items = << >> THEN << >>
    ELSE LET item == Head(items)
             rest == ItemsWithDates(Tail(items))
         IN  IF item.pub_date.kind # "none"
             THEN LET r == parse_from_rfc2822(item.pub_date)
                  IN  IF r.ok THEN << [item |-> item, date |-> r.date] >> \o rest
                      ELSE rest
             ELSE rest

\* The filter written with >= instead of >.
Newer_Inclusive(items_with_dates, last_seen) ==
    LET IsNewer(p) == ~DateGt(last_seen, p.date)
    IN  StableSort(SelectSeq(items_with_dates, IsNewer), FALSE)

\* The sort forgotten: the items later than the watermark, in feed order.
Newer_Unsorted(items_with_dates, last_seen) ==
    LET IsNewer(p) == DateGt(p.date, last_seen)
    IN  SelectSeq(items_with_dates, IsNewer)

\* Some(&last_seen): the items later than the watermark, oldest first.
Newer(items_with_dates, last_seen) ==
    LET IsNewer(p) == DateGt(p.date, last_seen)
    IN  StableSort(SelectSeq(items_with_dates, IsNewer), FALSE)

\* The reverse forgotten: the newest three, newest first.
Top3_NewestFirst(items_with_dates) ==
    Take(StableSort(items_with_dates, TRUE), FirstRunCap)

\* None: the newest three, oldest first.
Top3(items_with_dates) ==
    Reverse(Take(StableSort(items_with_dates, TRUE), FirstRunCap))

\* items_to_send, for the store `last_seen` (a map from urls to dates).
ItemsToSend(items_with_dates, last_seen_map, feed) ==
    IF feed \in DOMAIN last_seen_map
    THEN Newer(items_with_dates, last_seen_map[feed])
    ELSE Top3(items_with_dates)

\* What fetch and parse may hand to the selector for a feed: the dated items
\* of a document, and how many of its items had no usable date.
Poll(doc) ==
    LET dated == ItemsWithDates(doc)
    IN  [items_with_dates |-> dated, undated |-> Len(doc) - Len(dated)]

CorePolled == {Poll(doc) : doc \in CoreDocs}
NewsPolled == {Poll(doc) : doc \in NewsDocs}

Polled(feed) == IF feed = FEEDS[1] THEN CorePolled ELSE NewsPolled

\* let mut current_max_date = last_seen_option.cloned().unwrap_or(items_to_send[0].1)
InitialMaxDate(last_seen_map, feed, its) ==
    IF feed \in DOMAIN last_seen_map THEN last_seen_map[feed] ELSE its[1].date

\* The comparison turned around: the running maximum keeps the earlier date.
AdvanceMaxDate_Earlier(cur, chunk) ==
    IF DateGt(cur, chunk[Len(chunk)].date) THEN chunk[Len(chunk)].date ELSE cur

\* if *date > current_max_date { current_max_date = *date }, date of chunk.last()
AdvanceMaxDate(cur, chunk) ==
    IF DateGt(chunk[Len(chunk)].date, cur) THEN chunk[Len(chunk)].date ELSE cur

\* current_max_date when the loop over the chunks k.. of its has run to its
\* end, every send_discord_batch call having returned Ok.
RECURSIVE MaxDateAfter(_, _, _)
MaxDateAfter(cur, its, k) ==
    IF k > NumChunks(its, ChunkSize) THEN cur
    ELSE MaxDateAfter(AdvanceMaxDate(cur, Chunk(its, ChunkSize, k)), its, k + 1)

(***************************************************************************)
(* The watermark store and its file.                                       *)
(***************************************************************************)
EmptyMap == [u \in {} |-> 0]

\* AppState::new
NewAppState == EmptyMap

\* The instant written as if it were the local time.
ToRfc3339_UtcAsLocal(d) == [local |-> d.utc, off |-> d.off]

\* serde writes a DateTime<FixedOffset> as RFC 3339 text: local time and offset.
ToRfc3339(d) == [local |-> d.utc + d.off, off |-> d.off]
FromRfc3339(s) == [utc |-> s.local - s.off, off |-> s.off]

to_string_pretty(last_seen_map) ==
    [u \in DOMAIN last_seen_map |-> ToRfc3339(last_seen_map[u])]
from_str(text) == [u \in DOMAIN text |-> FromRfc3339(text[u])]

MissingFile == [kind |-> "missing", text |-> EmptyMap]
CorruptFile == [kind |-> "corrupt", text |-> EmptyMap]
JsonFile(text) == [kind |-> "json", text |-> text]

\* AppState::load: an unreadable or undecodable file gives the empty store.
AppStateLoad(file) ==
    IF file.kind # "missing"
    THEN IF file.kind = "json" THEN from_str(file.text) ELSE NewAppState
    ELSE NewAppState

\* A store rebuilt from the one entry instead of updated.
Insert_DropOthers(last_seen_map, feed, date) == [u \in {feed} |-> date]

\* state.last_seen.insert(url, date)
Insert(last_seen_map, feed, date) ==
    [u \in DOMAIN last_seen_map \cup {feed} |->
        IF u = feed THEN date ELSE last_seen_map[u]]

(***************************************************************************)
(* The description of an embed (send_discord_batch).  A text is a sequence *)
(* of characters; a Rust String stores it as UTF-8, where a character      *)
(* takes one to three bytes here.                                          *)
(***************************************************************************)
Chars == {"a", "e_acute", "euro"}

\* char::len_utf8
len_utf8(c) == CASE c = "e_acute" -> 2 [] c = "euro" -> 3 [] OTHER -> 1

\* String::len: the length in bytes, the sum of the widths of the characters.
len(s) ==
    LET OfWidth(w) == Cardinality({i \in DOMAIN s : len_utf8(s[i]) = w})
    IN  OfWidth(1) + 2 * OfWidth(2) + 3 * OfWidth(3)

\* The numbers of leading characters of s that take exactly n bytes: one
\* number when byte offset n is between two characters (or at an end), none
\* when it is inside a character.
CharsIn(s, n) == {k \in 0..Len(s) : len(Take(s, k)) = n}

\* str::is_char_boundary
is_char_boundary(s, n) == CharsIn(s, n) # {}

\* &s[0..n], where n is a character boundary.
ByteSlice(s, n) == Take(s, CHOOSE k \in CharsIn(s, n) : TRUE)

\* "..."
Marker == << ".", ".", "." >>

\* The description of no item: send_discord_batch is not at work.
NoDescription == [at |-> "idle", final_desc |-> << >>, description |-> << >>]

\* if final_desc.len() > 200 { format!("{}...", &final_desc[0..200]) }
\* else { final_desc }.  The slice by bytes panics when byte 200 is inside a
\* character.
Description(final_desc) ==
    IF len(final_desc) > DescLimit
    THEN IF is_char_boundary(final_desc, DescLimit)
         THEN [at |-> "described", final_desc |-> final_desc,
               description |->
                   ByteSlice(final_desc, DescLimit) \o Marker]
         ELSE [at |-> "panicked", final_desc |-> final_desc,
               description |-> << >>]
    ELSE [at |-> "described", final_desc |-> final_desc,
          description |-> final_desc]

\* The cleaned texts: some "a"s, one character of any width, some "a"s more,
\* of lengths around the limit.
CleanedTexts ==
    { [i \in 1..(n1 + 1 + n2) |-> IF i = n1 + 1 THEN c ELSE "a"] :
          n1 \in (DescLimit - MaxPad)..(DescLimit + MaxPad),
          c \in Chars,
          n2 \in 0..MaxPad }

(***************************************************************************)
(* State.                                                                  *)
(***************************************************************************)
VARIABLES
    disk,              \* the file state.json
    state,             \* main's `state.last_seen`: url -> date, partial
    state_changed,     \* main's `state_changed`
    pc,                \* where the process is: load, process, send, save, sleep
    fi,                \* index in FEEDS of the feed the for loop is at
    items_to_send,     \* fetch_and_process_feed's local, while it dispatches
    current_max_date,  \* fetch_and_process_feed's local, while it dispatches
    chunk_no,          \* which chunk the loop over chunks(10) is at
    results,           \* what each call of this cycle returned to main
    sent,              \* per url, the items the webhook accepted in the first
                       \* run of the process
    restarted,         \* the process was killed and started again
    desc,              \* send_discord_batch's final_desc and description of
                       \* one item
    ev                 \* what the last step did, as an observer sees it

vars == << disk, state, state_changed, pc, fi, items_to_send, current_max_date,
           chunk_no, results, sent, restarted, desc, ev >>

locals == << items_to_send, current_max_date, chunk_no >>

url == FEEDS[fi]

\* What a step did.  kind: what happened; url: to which feed; for a selection,
\* undated: how many items of the document had no usable date, and left_out:
\* how many dated items were not selected; for a dispatch, k: which chunk,
\* of: how many chunks the call has to send, again: the items of the chunk that the first run of the process had
\* dispatched before, and reached: the date of the last item the webhook has
\* accepted in this call (NoDate when none was).
Event(kind, feed) ==
    [kind |-> kind, url |-> feed, undated |-> 0, left_out |-> 0, k |-> 0,
     of |-> 0, again |-> {}, reached |-> NoDate]

Quiet(kind) == Event(kind, "")

Selection(kind, feed, polled, its) ==
    [Event(kind, feed) EXCEPT !.undated = polled.undated,
                              !.left_out = Len(polled.items_with_dates) - Len(its)]

Dispatch(kind, feed, k, of, again, reached) ==
    [Event(kind, feed) EXCEPT !.k = k, !.of = of, !.again = again,
                              !.reached = reached]

ItemsOf(batch) == {batch[i].item : i \in DOMAIN batch}

\* The memory of the process when main begins.
InitMemory ==
    /\ state = NewAppState
    /\ state_changed = FALSE
    /\ pc = "load"
    /\ fi = 1
    /\ items_to_send = << >>
    /\ current_max_date = NoDate
    /\ chunk_no = 0
    /\ results = EmptyMap
    /\ sent = [u \in Urls |-> {}]
    /\ restarted = FALSE
    /\ ev = Quiet("start")

Init ==
    /\ disk \in {MissingFile, CorruptFile, JsonFile(EmptyMap)}
    /\ InitMemory
    /\ desc = NoDescription

(***************************************************************************)
(* main: the loop.                                                         *)
(***************************************************************************)
\* let mut state = AppState::load(); let mut state_changed = false;
Load ==
    /\ pc = "load"
    /\ state' = AppStateLoad(disk)
    /\ state_changed' = FALSE
    /\ fi' = 1
    /\ pc' = "process"
    /\ results' = EmptyMap
    /\ ev' = Quiet("load")
    /\ UNCHANGED << disk, locals, sent, restarted, desc >>

\* Any Ok, also Ok(false), taken as an update.
Returned_AnyOk(outcome) ==
    /\ results' = [u \in DOMAIN results \cup {url} |->
                      IF u = url THEN outcome ELSE results[u]]
    /\ state_changed' = (state_changed \/ outcome \in {"updated", "unchanged"})
    /\ IF fi < Len(FEEDS)
       THEN fi' = fi + 1 /\ pc' = "process"
       ELSE fi' = fi /\ pc' = "save"
    /\ items_to_send' = << >>
    /\ current_max_date' = NoDate
    /\ chunk_no' = 0

\* An Err that ends the for loop instead of being printed.
Returned_AbortOnErr(outcome) ==
    /\ results' = [u \in DOMAIN results \cup {url} |->
                      IF u = url THEN outcome ELSE results[u]]
    /\ state_changed' = (state_changed \/ outcome = "updated")
    /\ IF fi < Len(FEEDS) /\ outcome \in {"updated", "unchanged"}
       THEN fi' = fi + 1 /\ pc' = "process"
       ELSE fi' = fi /\ pc' = "save"
    /\ items_to_send' = << >>
    /\ current_max_date' = NoDate
    /\ chunk_no' = 0

\* The match on what fetch_and_process_feed returned, and the for loop's step:
\* Ok(true) sets state_changed, an Err is printed, the next feed follows.
Returned(outcome) ==
    /\ results' = [u \in DOMAIN results \cup {url} |->
                      IF u = url THEN outcome ELSE results[u]]
    /\ state_changed' = (state_changed \/ outcome = "updated")
    /\ IF fi < Len(FEEDS)
       THEN fi' = fi + 1 /\ pc' = "process"
       ELSE fi' = fi /\ pc' = "save"
    /\ items_to_send' = << >>
    /\ current_max_date' = NoDate
    /\ chunk_no' = 0

(***************************************************************************)
(* fetch_and_process_feed.                                                 *)
(***************************************************************************)
\* A failed fetch that forgets the feed's watermark.
FetchError_Forgets ==
    /\ pc = "process"
    /\ Returned("fetch_error")
    /\ ev' = Event("fetch_error", url)
    /\ state' = [u \in DOMAIN state \ {url} |-> state[u]]
    /\ UNCHANGED << disk, sent, restarted, desc >>

\* ureq::get(..).call()? or read_to_end(..)? fails.
FetchError ==
    /\ pc = "process"
    /\ Returned("fetch_error")
    /\ ev' = Event("fetch_error", url)
    /\ UNCHANGED << disk, state, sent, restarted, desc >>

\* Channel::read_from(..)? fails.
ParseError ==
    /\ pc = "process"
    /\ Returned("parse_error")
    /\ ev' = Event("parse_error", url)
    /\ UNCHANGED << disk, state, sent, restarted, desc >>

\* An empty selection that still writes a watermark: the latest date of the
\* document, or the old watermark.
NoUpdate_WritesFloor ==
    /\ pc = "process"
    /\ \E polled \in Polled(url) :
          LET its == ItemsToSend(polled.items_with_dates, state, url)
              all == StableSort(polled.items_with_dates, TRUE)
          IN  /\ its = << >>
              /\ ev' = Selection("no_update", url, polled, its)
              /\ state' = IF all = << >> THEN state
                          ELSE Insert(state, url, all[1].date)
    /\ Returned("unchanged")
    /\ UNCHANGED << disk, sent, restarted, desc >>

\* items_to_send.is_empty(): return Ok(false).
NoUpdate ==
    /\ pc = "process"
    /\ \E polled \in Polled(url) :
          LET its == ItemsToSend(polled.items_with_dates, state, url)
          IN  /\ its = << >>
              /\ ev' = Selection("no_update", url, polled, its)
    /\ Returned("unchanged")
    /\ UNCHANGED << disk, state, sent, restarted, desc >>

\* There is something to send: enter the loop over the chunks.
BeginSend ==
    /\ pc = "process"
    /\ \E polled \in Polled(url) :
          LET its == ItemsToSend(polled.items_with_dates, state, url)
          IN  /\ its # << >>
              /\ items_to_send' = its
              /\ current_max_date' = InitialMaxDate(state, url, its)
              /\ ev' = Selection("selected", url, polled, its)
    /\ chunk_no' = 1
    /\ pc' = "send"
    /\ UNCHANGED << disk, state, state_changed, fi, results, sent, restarted, desc >>

ThisChunk == Chunk(items_to_send, ChunkSize, chunk_no)

\* send_discord_batch returned Ok: the running maximum advances; after the
\* last chunk the watermark is inserted and Ok(true) returned.
SendOk ==
    /\ pc = "send"
    /\ sent' = IF restarted THEN sent
               ELSE [sent EXCEPT ![url] = @ \cup ItemsOf(ThisChunk)]
    /\ ev' = Dispatch("sent", url, chunk_no, NumChunks(items_to_send, ChunkSize),
                      ItemsOf(ThisChunk) \cap sent[url],
                      ThisChunk[Len(ThisChunk)].date)
    /\ LET max == AdvanceMaxDate(current_max_date, ThisChunk)
       IN  IF chunk_no < NumChunks(items_to_send, ChunkSize)
           THEN /\ current_max_date' = max
                /\ chunk_no' = chunk_no + 1
                /\ UNCHANGED << state, state_changed, pc, fi, items_to_send, results >>
           ELSE /\ state' = Insert(state, url, max)
                /\ Returned("updated")
    /\ UNCHANGED << disk, restarted, desc >>

\* A failed chunk that is logged and skipped: the loop goes on with the next.
SendFail_SkipAhead ==
    /\ pc = "send"
    /\ ev' = Dispatch("send_error", url, chunk_no,
                      NumChunks(items_to_send, ChunkSize), {}, NoDate)
    /\ IF chunk_no < NumChunks(items_to_send, ChunkSize)
       THEN /\ chunk_no' = chunk_no + 1
            /\ UNCHANGED << state, state_changed, pc, fi, items_to_send,
                            current_max_date, results >>
       ELSE /\ Returned("send_error")
            /\ UNCHANGED state
    /\ UNCHANGED << disk, sent, restarted, desc >>

\* send_discord_batch(..)? returned Err: the function returns it at once.
SendFail ==
    /\ pc = "send"
    /\ Returned("send_error")
    /\ ev' = Dispatch("send_error", url, chunk_no,
                      NumChunks(items_to_send, ChunkSize), {},
                      IF chunk_no = 1 THEN NoDate
                      ELSE items_to_send[(chunk_no - 1) * ChunkSize].date)
    /\ UNCHANGED << disk, state, sent, restarted, desc >>

(***************************************************************************)
(* main: the end of a cycle.                                               *)
(***************************************************************************)
\* if state_changed { state.save() }: the write succeeds.
SaveOk ==
    /\ pc = "save"
    /\ state_changed
    /\ disk' = JsonFile(to_string_pretty(state))
    /\ pc' = "sleep"
    /\ ev' = Quiet("saved")
    /\ UNCHANGED << state, state_changed, fi, locals, results, sent, restarted,
                    desc >>

\* A failed write that is tried again.
SaveFail_Retry ==
    /\ pc = "save"
    /\ state_changed
    /\ pc' = "save"
    /\ ev' = Quiet("save_failed")
    /\ UNCHANGED << disk, state, state_changed, fi, locals, results, sent,
                    restarted, desc >>

\* if state_changed { state.save() }: fs::write fails, `let _ =` drops the error.
SaveFail ==
    /\ pc = "save"
    /\ state_changed
    /\ pc' = "sleep"
    /\ ev' = Quiet("save_failed")
    /\ UNCHANGED << disk, state, state_changed, fi, locals, results, sent,
                    restarted, desc >>

\* state_changed is false: nothing is written.
SkipSave ==
    /\ pc = "save"
    /\ ~state_changed
    /\ pc' = "sleep"
    /\ ev' = Quiet("not_saved")
    /\ UNCHANGED << disk, state, state_changed, fi, locals, results, sent,
                    restarted, desc >>

\* thread::sleep(CHECK_INTERVAL_SECONDS), then the next iteration of the loop.
Sleep ==
    /\ pc = "sleep"
    /\ pc' = "load"
    /\ ev' = Quiet("woke")
    /\ UNCHANGED << disk, state, state_changed, fi, locals, results, sent,
                    restarted, desc >>

\* The process is killed, at any point, and started again: memory is lost,
\* the file stays, main begins with its first load.
Restart ==
    /\ restarted' = TRUE
    /\ state' = NewAppState
    /\ state_changed' = FALSE
    /\ pc' = "load"
    /\ fi' = 1
    /\ items_to_send' = << >>
    /\ current_max_date' = NoDate
    /\ chunk_no' = 0
    /\ results' = EmptyMap
    /\ ev' = Quiet("restart")
    /\ UNCHANGED << disk, sent, desc >>

Cycle ==
    \/ Load
    \/ FetchError
    \/ ParseError
    \/ NoUpdate
    \/ BeginSend
    \/ SendOk
    \/ SendFail
    \/ SaveOk
    \/ SkipSave
    \/ Sleep

Next == Cycle \/ SaveFail \/ Restart

Spec == Init /\ [][Next]_vars

\* The process with a dependable environment: every write of the file
\* succeeds and the process is never killed.
NextReliable == Cycle

SpecReliable == Init /\ [][NextReliable]_vars

\* The process with dependable writes, stopped only while it sleeps between
\* two cycles.
RestartAsleep == pc = "sleep" /\ Restart

NextGraceful == Cycle \/ RestartAsleep

SpecGraceful == Init /\ [][NextGraceful]_vars

\* The process with a dependable file, never killed, started with a watermark
\* for the core feed in state.json (left there by an earlier run), while the
\* core feed from now on returns the long document, whose items are all later
\* than that watermark.  The loop never ends: each iteration finishes and the
\* sleep returns.
InitLive ==
    /\ disk \in {JsonFile(to_string_pretty([u \in {FEEDS[1]} |-> [utc |-> t, off |-> 0]]))
                    : t \in 1..MaxInstant}
    /\ InitMemory
    /\ desc = NoDescription

LongDocument == fi = 1 => Len(items_to_send') + ev'.left_out = BigLen

BeginSendLong == BeginSend /\ LongDocument

NoUpdateLong == NoUpdate /\ LongDocument

NextLive ==
    \/ Load
    \/ FetchError
    \/ ParseError
    \/ NoUpdateLong
    \/ BeginSendLong
    \/ SendOk
    \/ SendFail
    \/ SaveOk
    \/ SkipSave
    \/ Sleep

SpecLive ==
    /\ InitLive
    /\ [][NextLive]_vars
    /\ WF_vars(NextLive)

\* send_discord_batch at one item, after the markup is stripped, "&nbsp;"
\* replaced and the text trimmed: final_desc is some cleaned text.
InitSanitizer ==
    /\ disk = MissingFile
    /\ InitMemory
    /\ desc \in {[NoDescription EXCEPT !.at = "cleaned", !.final_desc = s]
                    : s \in CleanedTexts}

Describe ==
    /\ desc.at = "cleaned"
    /\ desc' = Description(desc.final_desc)
    /\ UNCHANGED << disk, state, state_changed, pc, fi, locals, results, sent,
                    restarted, ev >>

NextSanitizer == Describe

SpecSanitizer == InitSanitizer /\ [][NextSanitizer]_vars

(***************************************************************************)
(* Properties.                                                             *)
(***************************************************************************)
\* new has every watermark of old, none of them earlier.
StoreGeq(new, old) ==
    \A u \in DOMAIN old : u \in DOMAIN new /\ DateLeq(old[u], new[u])

ErrorKinds == {"fetch_error", "parse_error", "send_error"}

\* C1. Watermark monotonicity: no step takes a watermark away from the file
\* or moves it backward there, and within a cycle (from the load to the save)
\* no step, whatever the feed or the webhook answered, takes a watermark away
\* from the store in memory or moves it backward.
C1_WatermarkMonotone ==
    [][ /\ StoreGeq(AppStateLoad(disk'), AppStateLoad(disk))
        /\ (pc # "load" /\ ev'.kind # "restart") => StoreGeq(state', state)
      ]_vars

\* A cycle has moved an existing watermark strictly forward.
C1_Witness ==
    /\ pc = "save"
    /\ \E u \in DOMAIN AppStateLoad(disk) :
          u \in DOMAIN state /\ DateGt(state[u], AppStateLoad(disk)[u])

\* C2. No-duplicate law: while a feed with a stored watermark W is being
\* dispatched, every item of the delivery list (so every item handed to the
\* webhook) has a date strictly later than W, in memory and in the file.
C2_NoDuplicateLaw ==
    pc = "send" =>
        \A i \in DOMAIN items_to_send :
            /\ url \in DOMAIN state => DateGt(items_to_send[i].date, state[url])
            /\ url \in DOMAIN AppStateLoad(disk) =>
                   DateGt(items_to_send[i].date, AppStateLoad(disk)[url])

\* A delivery list was selected from a document that also held dated items
\* not later than the stored watermark.
C2_Witness ==
    /\ pc = "send"
    /\ ev.kind = "selected"
    /\ url \in DOMAIN state
    /\ ev.left_out > 0

\* C3. Partial-failure watermark retention, as claimed: when the dispatch of
\* chunk k >= 2 fails, the feed's watermark in the store is the date of the
\* last item of chunk k-1 and the feed counts as changed.
C3_PartialProgressKept ==
    (ev.kind = "send_error" /\ ev.k >= 2) =>
        /\ ev.url \in DOMAIN state
        /\ state[ev.url] = ev.reached
        /\ state_changed

\* C4. No re-delivery after a partial cycle, as claimed: no chunk accepted by
\* the webhook holds an item that an earlier accepted chunk held.
C4_NoRedelivery ==
    (ev.kind = "sent" /\ ~restarted) => ev.again = {}

\* C5. Restart safety, as claimed: after a restart no accepted chunk holds an
\* item that the webhook accepted before the restart.
C5_RestartSafe ==
    (ev.kind = "sent" /\ restarted) => ev.again = {}

\* s lists its items by date, earliest first (equal dates in any order).
Ascending(s) ==
    \A i, j \in DOMAIN s : i < j => DateLeq(s[i].date, s[j].date)

\* C6. First-run cap: for a feed without a stored watermark, whatever document
\* it returns with N dated items, the delivery list has min(N, 3) items, each
\* a dated item of the document and none twice, no item left out is later
\* than a selected one, and the list is in ascending date order; it is sent
\* as one chunk in that order.
C6_FirstRunCap ==
    /\ (pc = "process" /\ url \notin DOMAIN state) =>
          \A polled \in Polled(url) :
             LET dated == polled.items_with_dates
                 its == ItemsToSend(dated, state, url)
             IN  /\ Len(its) = Min(Len(dated), 3)
                 /\ Injective(its)
                 /\ Range(its) \subseteq Range(dated)
                 /\ \A d \in Range(dated) \ Range(its) :
                       \A s \in Range(its) : DateLeq(d.date, s.date)
                 /\ Ascending(its)
    /\ (pc = "send" /\ url \notin DOMAIN state) =>
          /\ Len(items_to_send) <= 3
          /\ Ascending(items_to_send)
          /\ NumChunks(items_to_send, ChunkSize) = 1

\* A first poll of a document with more than three dated items: three were
\* selected and the others left out.
C6_Witness ==
    /\ pc = "send"
    /\ ev.kind = "selected"
    /\ url \notin DOMAIN state
    /\ Len(items_to_send) = 3
    /\ ev.left_out > 0

\* C7. Catch-up completeness: for a feed with a stored watermark W, whatever
\* document it returns, the delivery list holds exactly the dated items with
\* a date strictly later than W, each once, however many they are, in
\* ascending date order over the whole list.
C7_CatchUpComplete ==
    /\ (pc = "process" /\ url \in DOMAIN state) =>
          \A polled \in Polled(url) :
             LET dated == polled.items_with_dates
                 its == ItemsToSend(dated, state, url)
             IN  /\ Range(its) = {d \in Range(dated) : DateGt(d.date, state[url])}
                 /\ Injective(its)
                 /\ Ascending(its)
    /\ (pc = "send" /\ url \in DOMAIN state) => Ascending(items_to_send)

\* A catch-up of more items than one chunk holds, selected from a document
\* that lists the newest first.
C7_Witness ==
    /\ pc = "send"
    /\ ev.kind = "selected"
    /\ url \in DOMAIN state
    /\ Len(items_to_send) > ChunkSize
    /\ \E polled \in Polled(url) :
          /\ ~Ascending(polled.items_with_dates)
          /\ ItemsToSend(polled.items_with_dates, state, url) = items_to_send

\* C8. Undatable exclusion: every item of a delivery list, with or without a
\* stored watermark, has a publish date that is present and parses, and is
\* listed under that date; so is every item the webhook accepted; and every
\* watermark, in memory and in the file, is a parsed date.
C8_UndatableExcluded ==
    /\ pc = "send" =>
          /\ \A i \in DOMAIN items_to_send :
                LET p == items_to_send[i]
                IN  /\ p.item.pub_date.kind = "rfc2822"
                    /\ p.date = parse_from_rfc2822(p.item.pub_date).date
          /\ current_max_date # NoDate
    /\ \A u \in Urls : \A item \in sent[u] : item.pub_date.kind = "rfc2822"
    /\ \A u \in DOMAIN state : state[u] # NoDate
    /\ \A u \in DOMAIN AppStateLoad(disk) : AppStateLoad(disk)[u] # NoDate

\* A delivery list was selected from a document that held items without a
\* usable date.
C8_Witness ==
    /\ pc = "send"
    /\ ev.kind = "selected"
    /\ ev.undated > 0

\* C9. Per-feed error isolation: at the end of the for loop every feed has
\* been processed, whatever the others returned; a step that ends a feed's
\* processing in an error leaves every other feed's watermark as it was; and
\* when some feed reported an update, the cycle ends with a write of the
\* store, which, when it succeeds, leaves the whole store in the file.
C9_ErrorIsolation ==
    /\ [](/\ pc \in {"save", "sleep"} => DOMAIN results = Urls
          /\ (pc = "save" /\ \E u \in Urls : results[u] = "updated") => state_changed
          /\ (pc = "sleep" /\ \E u \in Urls : results[u] = "updated") =>
                 ev.kind \in {"saved", "save_failed"}
          /\ ev.kind = "saved" => AppStateLoad(disk) = state)
    /\ [][ev'.kind \in ErrorKinds =>
             \A u \in Urls \ {ev'.url} :
                /\ (u \in DOMAIN state') = (u \in DOMAIN state)
                /\ u \in DOMAIN state => state'[u] = state[u]
         ]_vars

\* A cycle in which the first feed ended in an error and the second feed's
\* new watermark reached the file.
C9_Witness ==
    /\ pc = "sleep"
    /\ ev.kind = "saved"
    /\ results[FEEDS[1]] \in ErrorKinds
    /\ results[FEEDS[2]] = "updated"
    /\ FEEDS[2] \in DOMAIN AppStateLoad(disk)

\* C10. Abort on dispatch failure: a feed is selected for dispatch only when
\* it has not returned yet in this cycle; its first chunk is accepted only
\* right after the selection, and chunk k+1 only right after chunk k of the
\* same feed was accepted: after a failed chunk nothing more of that feed is
\* dispatched in the cycle, and what was accepted is a prefix of the list.
C10_AbortOnFailure ==
    [][ /\ (ev'.kind = "selected" /\ ev' # ev) => ev'.url \notin DOMAIN results
        /\ (ev'.kind = "sent" /\ ev' # ev) =>
              IF ev'.k = 1
              THEN ev.kind = "selected" /\ ev.url = ev'.url
              ELSE ev.kind = "sent" /\ ev.url = ev'.url /\ ev.k + 1 = ev'.k
        /\ (ev.kind = "send_error" /\ ev' # ev) =>
              /\ ev.url \in DOMAIN results
              /\ results[ev.url] = "send_error"
              /\ ~(ev'.kind = "sent" /\ ev'.url = ev.url)
      ]_vars

\* The second of three chunks failed after the first was accepted.
C10_Witness ==
    /\ ev.kind = "send_error"
    /\ ev.k = 2
    /\ ev.of = 3
    /\ results[ev.url] = "send_error"

\* The stores a and b differ in the watermark of some feed.
Differs(a, b) ==
    \E u \in Urls :
        \/ (u \in DOMAIN a) # (u \in DOMAIN b)
        \/ u \in DOMAIN a /\ u \in DOMAIN b /\ a[u] # b[u]

\* C11. Persist iff changed: when the for loop has ended, state_changed is
\* true exactly when the store in memory differs, for some feed, from the store
\* the cycle loaded (the file has not changed since); the write is attempted
\* exactly when state_changed is true, and a write that succeeded left the
\* store in the file.
C11_PersistIffChanged ==
    /\ pc = "save" => (state_changed <=> Differs(state, AppStateLoad(disk)))
    /\ (pc = "sleep" /\ ev.kind = "saved") =>
          state_changed /\ AppStateLoad(disk) = state
    /\ (pc = "sleep" /\ ev.kind = "save_failed") =>
          state_changed /\ Differs(state, AppStateLoad(disk))
    /\ (pc = "sleep" /\ ev.kind = "not_saved") =>
          ~state_changed /\ ~Differs(state, AppStateLoad(disk))
    /\ pc = "sleep" => ev.kind \in {"saved", "save_failed", "not_saved"}

\* A cycle that wrote the store because one feed moved, the other not.
C11_Witness ==
    /\ pc = "sleep"
    /\ ev.kind = "saved"
    /\ \E u \in Urls : results[u] = "unchanged"
    /\ \E u \in Urls : results[u] = "updated"

\* C12. No-update frame: a step that finds the delivery set of a feed empty
\* hands nothing to the webhook, leaves the store (every entry, an absent one
\* absent) and the file as they were, returns Ok(false), and leaves
\* state_changed as it was.
C12_NoUpdateFrame ==
    [][ev'.kind = "no_update" =>
          /\ state' = state
          /\ disk' = disk
          /\ sent' = sent
          /\ state_changed' = state_changed
          /\ ev'.url \in DOMAIN results' /\ results'[ev'.url] = "unchanged"
          /\ pc' # "send"
      ]_vars

\* A document whose dated items are all at or before the stored watermark
\* gave no update, and nothing else changed in the cycle.
C12_Witness ==
    /\ ev.kind = "no_update"
    /\ ev.left_out > 0
    /\ ev.url \in DOMAIN state
    /\ ~state_changed
    /\ pc = "save"

\* C13. Fetch/parse error frame: a step in which the fetch or the parse of a
\* feed fails hands nothing to the webhook, leaves the whole store and the
\* file as they were, and returns an error, not an update: state_changed
\* stays as it was.
C13_FetchParseErrorFrame ==
    [][ev'.kind \in {"fetch_error", "parse_error"} =>
          /\ state' = state
          /\ disk' = disk
          /\ sent' = sent
          /\ state_changed' = state_changed
          /\ ev'.url \in DOMAIN results' /\ results'[ev'.url] = ev'.kind
          /\ pc' # "send"
      ]_vars

\* The parse of a feed with a stored watermark failed.
C13_Witness ==
    /\ ev.kind = "parse_error"
    /\ ev.url \in DOMAIN state
    /\ results[ev.url] = "parse_error"

\* C14. Empty-state resilience: a load from a missing or undecodable file
\* gives the empty store and the process goes on to the feeds; until a write
\* succeeds every feed is then selected as on a first run (at most three
\* items, no watermark); a failed write changes nothing, and the process goes
\* to sleep without writing again.
C14_EmptyStateResilience ==
    /\ []( /\ (ev.kind = "load" /\ disk.kind # "json") =>
                 state = EmptyMap /\ pc = "process"
           /\ (pc = "send" /\ disk.kind # "json") =>
                 /\ url \notin DOMAIN state
                 /\ Len(items_to_send) <= FirstRunCap
           /\ ev.kind = "save_failed" => pc = "sleep" )
    /\ [][ev'.kind = "save_failed" =>
             disk' = disk /\ state' = state /\ state_changed' = state_changed
         ]_vars

\* After a load from an undecodable file a first-run selection was sent and
\* the write of the store failed.
C14_Witness ==
    /\ ev.kind = "save_failed"
    /\ disk.kind = "corrupt"
    /\ state # EmptyMap

\* Where x stands in the list s (s has x once).
IndexOf(s, x) == CHOOSE i \in DOMAIN s : s[i] = x

\* Items of its that have equal dates stand in the order they have in dated.
TieStable(dated, its) ==
    \A i, j \in DOMAIN its :
        (i < j /\ its[i].date.utc = its[j].date.utc) =>
            IndexOf(dated, its[i]) < IndexOf(dated, its[j])

\* C16. Tie stability, as claimed: on both selector paths, whatever document
\* the feed returns, items of the delivery list with equal dates stand in the
\* order they have in the document.
C16_TieStability ==
    pc = "process" =>
        \A polled \in Polled(url) :
            TieStable(polled.items_with_dates,
                      ItemsToSend(polled.items_with_dates, state, url))

\* The chunks 1..k of s, one after the other.
RECURSIVE ConcatChunks(_, _, _)
ConcatChunks(s, n, k) ==
    IF k = 0 THEN << >> ELSE ConcatChunks(s, n, k - 1) \o Chunk(s, n, k)

\* C17. Batch partition: while a delivery list is dispatched, the loop is at
\* one of its chunks, every chunk has between 1 and 10 items and every chunk
\* but the last exactly 10, the chunks accepted so far are the list's first
\* items in list order, and all chunks one after the other are the list.
C17_BatchPartition ==
    pc = "send" =>
        LET n == NumChunks(items_to_send, ChunkSize)
        IN  /\ chunk_no \in 1..n
            /\ \A k \in 1..n :
                  LET size == Len(Chunk(items_to_send, ChunkSize, k))
                  IN  /\ size >= 1 /\ size <= 10
                      /\ k < n => size = 10
            /\ ConcatChunks(items_to_send, ChunkSize, chunk_no - 1)
                   = SubSeq(items_to_send, 1, (chunk_no - 1) * 10)
            /\ ConcatChunks(items_to_send, ChunkSize, n) = items_to_send

\* The loop is at the third chunk, which is shorter than the two before it.
C17_Witness ==
    /\ pc = "send"
    /\ chunk_no = 3
    /\ Len(ThisChunk) < ChunkSize
    /\ ev.kind = "sent"

\* The latest of the dates of the list s, as an instant.
MaxInstantOf(s) ==
    CHOOSE m \in {s[i].date.utc : i \in DOMAIN s} :
        \A i \in DOMAIN s : s[i].date.utc <= m

\* C18. Watermark value after success: the step that accepts the last chunk
\* of a feed's delivery list returns Ok(true) and leaves as the feed's
\* watermark the latest date among the items of the list (all of them were
\* dispatched), on either selector path; that date is strictly later than the
\* watermark the feed had, when it had one.
C18_WatermarkAfterSuccess ==
    [][(ev'.kind = "sent" /\ ev'.k = ev'.of) =>
          /\ results'[url] = "updated"
          /\ state_changed'
          /\ url \in DOMAIN state'
          /\ state'[url].utc = MaxInstantOf(items_to_send)
          /\ state'[url] = MaxDateAfter(InitialMaxDate(state, url, items_to_send),
                                        items_to_send, 1)
          /\ url \in DOMAIN state => DateGt(state'[url], state[url])
      ]_vars

\* A catch-up of three chunks was accepted whole and moved the watermark to
\* the date of its last item.
C18_Witness ==
    /\ ev.kind = "sent"
    /\ ev.k = 3
    /\ ev.of = 3
    /\ results[ev.url] = "updated"
    /\ state[ev.url] = ev.reached

\* C20. Quiescence after success: at every store the process reaches, and for
\* whatever document the feed returns with a delivery list that is not empty:
\* once every chunk was accepted, the watermark inserted and the store written
\* and loaded again, the store is the same, and the same document then gives
\* an empty delivery list.
C20_Quiescence ==
    pc = "process" =>
        \A polled \in Polled(url) :
            LET dated == polled.items_with_dates
                its == ItemsToSend(dated, state, url)
                after == Insert(state, url,
                                MaxDateAfter(InitialMaxDate(state, url, its), its, 1))
                again == AppStateLoad(JsonFile(to_string_pretty(after)))
            IN  its # << >> =>
                    /\ again = after
                    /\ ItemsToSend(dated, again, url) = << >>

\* A feed whose items were accepted and whose watermark was written is polled
\* again and gives no update.
C20_Witness ==
    /\ ev.kind = "no_update"
    /\ ev.url \in DOMAIN AppStateLoad(disk)
    /\ sent[ev.url] # {}
    /\ ev.left_out = Cardinality(sent[ev.url])
    /\ state = AppStateLoad(disk)

\* Every item of the long document has been accepted by the webhook.
AllLongSent == \A i \in 1..BigLen : BigItem(i) \in sent[FEEDS[1]]

\* No watermark of the core feed, in memory or in the file, is at or past the
\* date of an item of the long document that the webhook has not accepted.
NotPastUnsent ==
    \A i \in 1..BigLen :
        BigItem(i) \notin sent[FEEDS[1]] =>
            LET d == parse_from_rfc2822(BigItem(i).pub_date).date
            IN  /\ FEEDS[1] \in DOMAIN state => DateGt(d, state[FEEDS[1]])
                /\ FEEDS[1] \in DOMAIN AppStateLoad(disk) =>
                       DateGt(d, AppStateLoad(disk)[FEEDS[1]])

\* The last step was a call for the core feed whose fetch and parse succeeded.
CoreFetchedAndParsed == ev.url = FEEDS[1] /\ ev.kind \in {"selected", "no_update"}

\* The last step was a dispatch for the core feed that the webhook accepted.
CoreDispatched == ev.url = FEEDS[1] /\ ev.kind = "sent"

\* C19. No missed item, as claimed: with a stored watermark and a feed that
\* keeps returning items later than it, if fetch and parse succeed infinitely
\* often and dispatch succeeds infinitely often, then every such item is
\* eventually accepted by the webhook, and no watermark ever moves past an
\* item not yet accepted.
C19_NoMissedItem ==
    ([]<>CoreFetchedAndParsed /\ []<>CoreDispatched) =>
        (<>AllLongSent /\ []NotPastUnsent)

\* C15. Sanitizer truncation, as claimed: the operation never fails; a text
\* of more than 200 characters becomes its first 200 characters followed by
\* the marker; a text of at most 200 characters is returned unchanged.
C15_SanitizerTruncation ==
    desc.at \notin {"idle", "cleaned"} =>
        /\ desc.at = "described"
        /\ Len(desc.final_desc) > DescLimit =>
               desc.description = Take(desc.final_desc, DescLimit) \o Marker
        /\ Len(desc.final_desc) <= DescLimit =>
               desc.description = desc.final_desc

====
